---- MODULE Spec2Model ----
(***************************************************************************)
(* Model of cmake/Modules/RuCheckCompilerAttributeGen.py: a generator that *)
(* parses one command-line selector (--lang), maps it to a LangName        *)
(* descriptor, renders the constant `template` with str.format and writes  *)
(* the result to standard output.                                          *)
(*                                                                         *)
(* Text is modelled as a sequence of one-character strings, so that        *)
(* dedent, str.format, str.lower and str.upper are computed character by   *)
(* character the way the interpreter computes them.                        *)
(***************************************************************************)
EXTENDS Integers, Sequences, FiniteSets, TLC

\* The characters of a string literal, in order.
Chars(str) == [i \in 1 .. Len(str) |-> SubSeq(str, i, i)]

\* The concatenation of the characters of a sequence of string literals.
RECURSIVE Concat(_)
Concat(strs) ==
    IF strs = <<>> THEN <<>> ELSE Chars(Head(strs)) \o Concat(Tail(strs))

\* The string literal passed to dedent (source lines 34-151), one element
\* per source line.  The backslash after the opening quotes joins the first
\* line to the quotes; the last element is the indentation in front of the
\* closing quotes.
template_literal ==
    <<
       "    # Copyright 2019 Google Inc\n",
       "    #\n",
       "    # Redistribution and use in source and binary forms, with or without\n",
       "    # modification, are permitted provided that the following conditions are met:\n",
       "    #\n",
       "    # 1. Redistributions of source code must retain the above copyright notice, this\n",
       "    #    list of conditions and the following disclaimer.\n",
       "    #\n",
       "    # 2. Redistributions in binary form must reproduce the above copyright notice,\n",
       "    #    this list of conditions and the following disclaimer in the documentation\n",
       "    #    and/or other materials provided with the distribution.\n",
       "    #\n",
       "    # 3. Neither the name of Google Inc. nor the names of its contributors may be\n",
       "    #    used to endorse or promote products derived from this software without\n",
       "    #    specific prior written permission.\n",
       "    #\n",
       "    # THIS SOFTWARE IS PROVIDED BY THE COPYRIGHT HOLDERS AND CONTRIBUTORS \"AS IS\" AND\n",
       "    # ANY EXPRESS OR IMPLIED WARRANTIES, INCLUDING, BUT NOT LIMITED TO, THE IMPLIED\n",
       "    # WARRANTIES OF MERCHANTABILITY AND FITNESS FOR A PARTICULAR PURPOSE ARE\n",
       "    # DISCLAIMED. IN NO EVENT SHALL THE COPYRIGHT HOLDER OR CONTRIBUTORS BE LIABLE\n",
       "    # FOR ANY DIRECT, INDIRECT, INCIDENTAL, SPECIAL, EXEMPLARY, OR CONSEQUENTIAL\n",
       "    # DAMAGES (INCLUDING, BUT NOT LIMITED TO, PROCUREMENT OF SUBSTITUTE GOODS OR\n",
       "    # SERVICES; LOSS OF USE, DATA, OR PROFITS; OR BUSINESS INTERRUPTION) HOWEVER\n",
       "    # CAUSED AND ON ANY THEORY OF LIABILITY, WHETHER IN CONTRACT, STRICT LIABILITY,\n",
       "    # OR TORT (INCLUDING NEGLIGENCE OR OTHERWISE) ARISING IN ANY WAY OUT OF THE USE\n",
       "    # OF THIS SOFTWARE, EVEN IF ADVISED OF THE POSSIBILITY OF SUCH DAMAGE.\n",
       "\n",
       "    include(Check{lang:u}SourceCompiles)\n",
       "    include(RuAdd{lang:u}Flag)\n",
       "\n",
       "    function(ru_get_{lang:l}_attribute_test_name result attrib)\n",
       "        string(TOUPPER \"HAVE_{lang:u}_ATTRIBUTE_${{attrib}}\" name)\n",
       "        set(\"${{result}}\" \"${{name}}\" PARENT_SCOPE)\n",
       "    endfunction()\n",
       "\n",
       "    # Check if the {lang:h} compiler supports a given attribute.\n",
       "    #\n",
       "    #   ru_check_{lang:l}_attribute(<attrib> CODE <code>)\n",
       "    #\n",
       "    # Test if the {lang:h} compiler supports <attrib>, and store\n",
       "    # the test result in internal cache variable HAVE_{lang:u}_ATTRIBUTE_${{attrib_name}},\n",
       "    # where attrib_name is the result of converting \"${{attrib}}\"\n",
       "    # to uppercase and sanitizing it into a legal CMake variable name.\n",
       "    #\n",
       "    # The test respects the same global variables as check_{lang:l}_source_compiles.\n",
       "    #\n",
       "    # Before checking if the compiler supports the attribute, the function\n",
       "    # first checks if the compiler supports the flags\n",
       "    # \"-Werror=ignored-attribute\" and \"-Werror=unknown-attributes\" with\n",
       "    # ru_check_{lang:l}_flag, and adds each supported flag to\n",
       "    # CMAKE_REQUIRED_FLAGS at function-scope.\n",
       "    #\n",
       "    # Example:\n",
       "    #\n",
       "    #     If the compiler supports the \"alloc_size\" attribute, then\n",
       "    #\n",
       "    #         ru_check_{lang:l}_attribute(alloc_size\n",
       "    #             CODE\n",
       "    #                 [=[\n",
       "    #                 void *f(int n) __attribute__((alloc_size(1)));\n",
       "    #                 void *g(int m, int n) __attribute__((alloc_size(1, 2)));\n",
       "    #                 int main(void) {{ return 0; }}\n",
       "    #                 ]=]\n",
       "    #         )\n",
       "    #\n",
       "    #     will set the cache variable\n",
       "    #\n",
       "    #         HAVE_{lang:u}_ATTRIBUTE_ALLOC_SIZE:INTERNAL=1\n",
       "    #\n",
       "    #     Otherwise, it will set\n",
       "    #\n",
       "    #         HAVE_{lang:u}_ATTRIBUTE_ALLOC_SIZE:INTERNAL=\n",
       "    #\n",
       "    function(ru_check_{lang:l}_attribute attrib)\n",
       "        cmake_parse_arguments(\n",
       "            PARSE_ARGV 1\n",
       "            \"ARG\" # prefix\n",
       "            \"\" # options\n",
       "            \"CODE\" # one-value-keywords\n",
       "            \"\" # multi-value-keywords\n",
       "        )\n",
       "\n",
       "        if(NOT ARG_CODE)\n",
       "            message(FATAL_ERROR \"in ru_check_{lang:l}_attribute: CODE keyword argument is missing\")\n",
       "        endif()\n",
       "\n",
       "        if(ARG_UNPARSED_ARGUMENTS)\n",
       "            message(FATAL_ERROR \"in ru_check_{lang:l}_attribute: found unknown arguments: ${{ARG_UNPARSED_ARGUMENTS}}\")\n",
       "        endif()\n",
       "\n",
       "        ru_check_{lang:l}_flag(\"-Werror=ignored-attributes\")\n",
       "        if(HAVE_{lang:u}_FLAG_WERROR_IGNORED_ATTRIBUTES)\n",
       "            string(APPEND CMAKE_REQUIRED_FLAGS \" -Werror=ignored-attributes\")\n",
       "        endif()\n",
       "\n",
       "        ru_check_{lang:l}_flag(\"-Werror=unknown-attributes\")\n",
       "        if(HAVE_{lang:u}_FLAG_WERROR_UNKNOWN_ATTRIBUTES)\n",
       "            string(APPEND CMAKE_REQUIRED_FLAGS \" -Werror=unknown-attributes\")\n",
       "        endif()\n",
       "\n",
       "        ru_get_{lang:l}_attribute_test_name(test_name \"${{attrib}}\")\n",
       "\n",
       "        # Replace the messages from check_{lang:l}_source_compiles with custom,\n",
       "        # more helpful messages. But mimic the style of the original messages.\n",
       "        set(CMAKE_REQUIRED_QUIET ON)\n",
       "        set(msg \"Performing Test ${{test_name}} for {lang:h} attribute \\\"${{attrib}}\\\"\")\n",
       "\n",
       "        message(STATUS \"${{msg}}\")\n",
       "        check_{lang:l}_source_compiles(\"${{ARG_CODE}}\" ${{test_name}})\n",
       "\n",
       "        if(${{test_name}})\n",
       "            message(STATUS \"${{msg}} - Success\")\n",
       "        else()\n",
       "            message(STATUS \"${{msg}} - Failed\")\n",
       "        endif()\n",
       "    endfunction()\n",
       "    "
    >>

Whitespace == {" ", "\t"}

\* The index of the newline that ends the line starting at st, or
\* Len(s) + 1 when the line runs to the end of the text.
LineEnd(s, st) ==
    CHOOSE j \in st .. (Len(s) + 1) :
        /\ (j = Len(s) + 1 \/ s[j] = "\n")
        /\ \A k \in st .. (j - 1) : s[k] # "\n"

\* The first index of every line of s.
LineStarts(s) == {1} \cup {i + 1 : i \in {k \in 1 .. (Len(s) - 1) : s[k] = "\n"}}

\* The number of leading blanks and tabs of the line starting at st.
IndentLen(s, st) ==
    CHOOSE n \in 0 .. (LineEnd(s, st) - st) :
        /\ \A k \in st .. (st + n - 1) : s[k] \in Whitespace
        /\ (st + n = LineEnd(s, st) \/ s[st + n] \notin Whitespace)

\* A line holding nothing but blanks and tabs (textwrap._whitespace_only_re).
IsBlankLine(s, st) == st + IndentLen(s, st) = LineEnd(s, st)

\* The length of the margin dedent removes: the longest common prefix of the
\* leading whitespace of the lines that hold something else than whitespace.
MarginLen(s) ==
    LET starts == {st \in LineStarts(s) : ~IsBlankLine(s, st)}
    IN  IF starts = {} THEN 0
        ELSE LET first == CHOOSE st \in starts : \A o \in starts : st <= o
                 Common(n) ==
                     \A st \in starts :
                         /\ IndentLen(s, st) >= n
                         /\ \A k \in 0 .. (n - 1) : s[st + k] = s[first + k]
             IN  CHOOSE n \in 0 .. IndentLen(s, first) :
                     /\ Common(n)
                     /\ \A m \in (n + 1) .. IndentLen(s, first) : ~Common(m)

\* dedent from the line starting at st: a whitespace-only line becomes an
\* empty line, any other line loses its first m characters.
RECURSIVE DedentFrom(_, _, _)
DedentFrom(s, st, m) ==
    IF st > Len(s) THEN <<>>
    ELSE LET e    == LineEnd(s, st)
             body == IF IsBlankLine(s, st) THEN <<>> ELSE SubSeq(s, st + m, e - 1)
             nl   == IF e <= Len(s) THEN <<"\n">> ELSE <<>>
         IN  body \o nl \o DedentFrom(s, e + 1, m)

\* textwrap.dedent(text)
dedent(text) == DedentFrom(text, 1, MarginLen(text))

\* Fault model: the braces of the first placeholder (source line 62) are
\* doubled like those of a CMake variable reference.
template_escaped ==
    dedent(Concat([template_literal EXCEPT
                      ![28] = "    include(Check{{lang:u}}SourceCompiles)\n"]))

\* template = dedent("""...""")
template == dedent(Concat(template_literal))

----------------------------------------------------------------------------
(* str.lower, str.upper                                                     *)

UpperCase == Chars("ABCDEFGHIJKLMNOPQRSTUVWXYZ")
LowerCase == Chars("abcdefghijklmnopqrstuvwxyz")

\* The index of character c in alphabet, 0 when it is not in it.
IndexIn(alphabet, c) ==
    IF \E i \in 1 .. Len(alphabet) : alphabet[i] = c
    THEN CHOOSE i \in 1 .. Len(alphabet) : alphabet[i] = c
    ELSE 0

\* str.lower(): every cased character to lower case, the others kept.
lower(s) ==
    [i \in 1 .. Len(s) |->
        IF IndexIn(UpperCase, s[i]) # 0 THEN LowerCase[IndexIn(UpperCase, s[i])]
        ELSE s[i]]

\* str.upper(): every cased character to upper case, the others kept.
upper(s) ==
    [i \in 1 .. Len(s) |->
        IF IndexIn(LowerCase, s[i]) # 0 THEN UpperCase[IndexIn(LowerCase, s[i])]
        ELSE s[i]]

----------------------------------------------------------------------------
(* class LangName                                                           *)

\* LangName(human=..., cmake=...): `bound` tells a constructed descriptor
\* from the local variable `lang` of main before any assignment.
LangName(human, cmake) == [bound |-> TRUE, human |-> human, cmake |-> cmake]
Unbound == [bound |-> FALSE, human |-> <<>>, cmake |-> <<>>]

\* A value returned by a call: ok = FALSE when the call ended in
\* `assert False` instead of a return.
Return(val) == [ok |-> TRUE, val |-> val]
AssertFalse == [ok |-> FALSE, val |-> <<>>]

\* Fault model: the two case conversions of __format__ exchanged.
LangName_format_swapped(self, format_spec) ==
    IF format_spec = Chars("h") THEN Return(self.human)
    ELSE IF format_spec = Chars("l") THEN Return(upper(self.cmake))
    ELSE IF format_spec = Chars("u") THEN Return(lower(self.cmake))
    ELSE AssertFalse

\* Fault model: __format__ without its branch for 'h'.
LangName_format_no_human(self, format_spec) ==
    IF format_spec = Chars("l") THEN Return(lower(self.cmake))
    ELSE IF format_spec = Chars("u") THEN Return(upper(self.cmake))
    ELSE AssertFalse

\* LangName.__format__(self, format_spec)
LangName_format(self, format_spec) ==
    IF format_spec = Chars("h") THEN Return(self.human)
    ELSE IF format_spec = Chars("l") THEN Return(lower(self.cmake))
    ELSE IF format_spec = Chars("u") THEN Return(upper(self.cmake))
    ELSE AssertFalse

----------------------------------------------------------------------------
(* str.format: one iteration of the interpreter's markup iterator           *)

Braces == {"{", "}"}

\* The index of the first brace of s at or after i, Len(s) + 1 if none.
NextBrace(s, i) ==
    CHOOSE j \in i .. (Len(s) + 1) :
        /\ (j = Len(s) + 1 \/ s[j] \in Braces)
        /\ \A k \in i .. (j - 1) : s[k] \notin Braces

\* The nesting depth of braces of s[open .. j], s[open] being "{".
Depth(s, open, j) ==
    Cardinality({k \in open .. j : s[k] = "{"})
        - Cardinality({k \in open .. j : s[k] = "}"})

\* The index of the "}" that closes the replacement field opened at `open`,
\* 0 when the text ends before the field is closed.
FieldClose(s, open) ==
    LET Closes(j) == s[j] = "}" /\ Depth(s, open, j) = 0
    IN  IF \E j \in (open + 1) .. Len(s) : Closes(j)
        THEN CHOOSE j \in (open + 1) .. Len(s) :
                 Closes(j) /\ \A k \in (open + 1) .. (j - 1) : ~Closes(k)
        ELSE 0

\* The index of the first ":" of a field's contents, 0 if none.
FirstColon(contents) ==
    IF \E i \in 1 .. Len(contents) : contents[i] = ":"
    THEN CHOOSE i \in 1 .. Len(contents) :
             contents[i] = ":" /\ \A k \in 1 .. (i - 1) : contents[k] # ":"
    ELSE 0

NoField(literal, next) ==
    [kind |-> "literal", literal |-> literal, name |-> <<>>, spec |-> <<>>,
     next |-> next]
Field(literal, name, spec, next) ==
    [kind |-> "field", literal |-> literal, name |-> name, spec |-> spec,
     next |-> next]
Malformed(next) ==
    [kind |-> "ValueError", literal |-> <<>>, name |-> <<>>, spec |-> <<>>,
     next |-> next]

\* Fault model: a doubled brace is copied as it stands, both braces kept.
Markup_keep_doubled(s, i) ==
    LET j == NextBrace(s, i)
    IN  IF j = Len(s) + 1 THEN NoField(SubSeq(s, i, Len(s)), j)
        ELSE IF j < Len(s) /\ s[j + 1] = s[j] THEN NoField(SubSeq(s, i, j + 1), j + 2)
        ELSE IF s[j] = "}" \/ j = Len(s) THEN Malformed(j)
        ELSE LET close == FieldClose(s, j)
             IN  IF close = 0 THEN Malformed(j)
                 ELSE LET contents == SubSeq(s, j + 1, close - 1)
                          colon    == FirstColon(contents)
                          name     == IF colon = 0 THEN contents
                                      ELSE SubSeq(contents, 1, colon - 1)
                          spec     == IF colon = 0 THEN <<>>
                                      ELSE SubSeq(contents, colon + 1, Len(contents))
                      IN  Field(SubSeq(s, i, j - 1), name, spec, close + 1)

\* One iteration over the format string s from index i <= Len(s): the
\* literal text up to the next brace and, when that brace opens a
\* replacement field, the field's name and format spec.  A doubled brace is
\* one literal brace and opens no field; a single "}" and an unclosed "{"
\* are malformed.
Markup(s, i) ==
    LET j == NextBrace(s, i)
    IN  IF j = Len(s) + 1 THEN NoField(SubSeq(s, i, Len(s)), j)
        ELSE IF j < Len(s) /\ s[j + 1] = s[j] THEN NoField(SubSeq(s, i, j), j + 2)
        ELSE IF s[j] = "}" \/ j = Len(s) THEN Malformed(j)
        ELSE LET close == FieldClose(s, j)
             IN  IF close = 0 THEN Malformed(j)
                 ELSE LET contents == SubSeq(s, j + 1, close - 1)
                          colon    == FirstColon(contents)
                          name     == IF colon = 0 THEN contents
                                      ELSE SubSeq(contents, 1, colon - 1)
                          spec     == IF colon = 0 THEN <<>>
                                      ELSE SubSeq(contents, colon + 1, Len(contents))
                      IN  Field(SubSeq(s, i, j - 1), name, spec, close + 1)

----------------------------------------------------------------------------
(* The process: command line, parser, main                                  *)

\* The longest command line explored.
MaxArgs == 3

\* The words a command line is made of: the two options the parser knows
\* (--lang, and the -h that ArgumentParser() adds), the two choices of
\* --lang, and a word that is neither.
Options == {"--lang", "-h"}

\* Fault model: a third choice accepted by the parser.
choices_wide == {"c", "c++", "java"}

\* choices=('c', 'c++')
choices == {"c", "c++"}

Words == Options \cup {"c", "c++", "java"}

Argvs == UNION {[1 .. n -> Words] : n \in 0 .. MaxArgs}

\* The value of an attribute that was never given: Python's None.
None == "<None>"

\* What -h writes to standard output (ArgumentParser.print_help).
help_text ==
    Concat(<<"usage: RuCheckCompilerAttributeGen.py [-h] [--lang {c,c++}]\n",
             "\n",
             "options:\n",
             "  -h, --help      show this help message and exit\n",
             "  --lang {c,c++}\n">>)

NoRun == [set |-> FALSE, lang |-> None, stdout |-> <<>>, status |-> 0]

VARIABLES
    argv,       \* sys.argv[1:]
    optimize,   \* the interpreter runs with -O: assert statements are removed
    pc,         \* the statement the process is at
    argi,       \* parse_args: index of the next word of argv
    namespace,  \* parse_args: the value of --lang collected so far
    extras,     \* parse_args: the words no option or positional takes
    pargs,      \* main: the namespace parse_args returned
    lang,       \* main: the local variable lang
    pos,        \* str.format: index of the next character of template
    result,     \* str.format: the text rendered so far
    fields,     \* str.format: the replacement fields rendered so far
    stdout,     \* the writes to standard output, in order
    stderr,     \* the messages on standard error, in order
    status,     \* the exit status, once pc = "exited"
    prev        \* the previous invocation that reached main, as observed
                \* from outside: selector, standard output, exit status

vars == <<argv, optimize, pc, argi, namespace, extras, pargs, lang, pos,
          result, fields, stdout, stderr, status, prev>>

\* A fresh process started with command line a under interpreter mode o.
Start(a, o) ==
    /\ argv' = a
    /\ optimize' = o
    /\ pc' = "parse_args"
    /\ argi' = 1
    /\ namespace' = None
    /\ extras' = <<>>
    /\ pargs' = [set |-> FALSE, lang |-> None]
    /\ lang' = Unbound
    /\ pos' = 1
    /\ result' = <<>>
    /\ fields' = <<>>
    /\ stdout' = <<>>
    /\ stderr' = <<>>
    /\ status' = -1

Init ==
    /\ argv \in Argvs
    /\ optimize \in BOOLEAN
    /\ pc = "parse_args"
    /\ argi = 1
    /\ namespace = None
    /\ extras = <<>>
    /\ pargs = [set |-> FALSE, lang |-> None]
    /\ lang = Unbound
    /\ pos = 1
    /\ result = <<>>
    /\ fields = <<>>
    /\ stdout = <<>>
    /\ stderr = <<>>
    /\ status = -1
    /\ prev = NoRun

\* The process ends with exit status code after writing msg to stderr.
Exit(code, msg) ==
    /\ pc' = "exited"
    /\ status' = code
    /\ stderr' = Append(stderr, msg)

\* ArgumentParser.error: usage message on stderr, exit status 2.
UsageError == Exit(2, "usage error")

\* An exception nothing catches: traceback on stderr, exit status 1.
Raise(exception) == Exit(1, exception)

----------------------------------------------------------------------------
(* parse_args: ap.add_argument('--lang', choices=('c', 'c++'));             *)
(* ap.parse_args() walks argv from left to right.                           *)

\* --lang takes the next word as its value, which must be there, must not
\* look like an option and must be one of the choices.  The option is
\* declared without required=True and without a default.
parse_lang ==
    /\ pc = "parse_args"
    /\ argi <= Len(argv)
    /\ argv[argi] = "--lang"
    /\ IF argi < Len(argv) /\ argv[argi + 1] \notin Options
          /\ argv[argi + 1] \in choices
       THEN /\ namespace' = argv[argi + 1]
            /\ argi' = argi + 2
            /\ UNCHANGED <<pc, stderr, status>>
       ELSE /\ UsageError
            /\ UNCHANGED <<namespace, argi>>
    /\ UNCHANGED <<argv, optimize, extras, pargs, lang, pos, result, fields,
                   stdout, prev>>

\* -h prints the help on standard output and exits with status 0 at once.
parse_help ==
    /\ pc = "parse_args"
    /\ argi <= Len(argv)
    /\ argv[argi] = "-h"
    /\ stdout' = Append(stdout, help_text)
    /\ pc' = "exited"
    /\ status' = 0
    /\ UNCHANGED <<argv, optimize, argi, namespace, extras, pargs, lang, pos,
                   result, fields, stderr, prev>>

\* A word that is no option: the parser has no positional to give it to.
parse_positional ==
    /\ pc = "parse_args"
    /\ argi <= Len(argv)
    /\ argv[argi] \notin Options
    /\ extras' = Append(extras, argv[argi])
    /\ argi' = argi + 1
    /\ UNCHANGED <<argv, optimize, pc, namespace, pargs, lang, pos, result,
                   fields, stdout, stderr, status, prev>>

\* All words read: unrecognized words are a usage error, otherwise
\* parse_args returns the namespace to main (pargs = parse_args()).
parse_return ==
    /\ pc = "parse_args"
    /\ argi > Len(argv)
    /\ IF extras # <<>>
       THEN /\ UsageError
            /\ UNCHANGED pargs
       ELSE /\ pargs' = [set |-> TRUE, lang |-> namespace]
            /\ pc' = "main"
            /\ UNCHANGED <<stderr, status>>
    /\ UNCHANGED <<argv, optimize, argi, namespace, extras, lang, pos, result,
                   fields, stdout, prev>>

----------------------------------------------------------------------------
(* main                                                                     *)

\* Fault model: the else branch of main falls back to the C descriptor.
main_lang_default(selector) ==
    IF selector = "c++" THEN Return(LangName(Chars("C++"), Chars("CXX")))
    ELSE Return(LangName(Chars("C"), Chars("C")))

\* Fault model: the C++ descriptor built with the token CPP.
main_lang_cpp(selector) ==
    IF selector = "c" THEN Return(LangName(Chars("C"), Chars("C")))
    ELSE IF selector = "c++" THEN Return(LangName(Chars("C++"), Chars("CPP")))
    ELSE AssertFalse

\* Fault model: the descriptor of the previous invocation is kept (in a
\* cache file, say) and used in place of the one the selector asks for.
main_lang_cached(selector) ==
    IF selector \notin {"c", "c++"} THEN AssertFalse
    ELSE IF (IF prev.set /\ prev.lang \in {"c", "c++"} THEN prev.lang ELSE selector) = "c"
    THEN Return(LangName(Chars("C"), Chars("C")))
    ELSE Return(LangName(Chars("C++"), Chars("CXX")))

\* The if/elif/else of main over pargs.lang: the descriptor assigned to
\* lang, or the `assert False` of the else branch.
main_lang(selector) ==
    IF selector = "c" THEN Return(LangName(Chars("C"), Chars("C")))
    ELSE IF selector = "c++" THEN Return(LangName(Chars("C++"), Chars("CXX")))
    ELSE AssertFalse

\* Lines 179-184.  Under -O the assert statement is compiled away and the
\* else branch falls through with lang unassigned.
main_select ==
    /\ pc = "main"
    /\ LET r == main_lang(pargs.lang)
       IN  IF r.ok
           THEN /\ lang' = r.val
                /\ pc' = "format_call"
                /\ UNCHANGED <<stderr, status>>
           ELSE IF optimize
           THEN /\ pc' = "format_call"
                /\ UNCHANGED <<lang, stderr, status>>
           ELSE /\ Raise("AssertionError")
                /\ UNCHANGED lang
    /\ UNCHANGED <<argv, optimize, argi, namespace, extras, pargs, pos, result,
                   fields, stdout, prev>>

\* Line 186, the arguments of template.format(lang=lang): reading a local
\* variable that was never assigned raises UnboundLocalError.
main_format_call ==
    /\ pc = "format_call"
    /\ IF lang.bound
       THEN /\ pc' = "format"
            /\ pos' = 1
            /\ result' = <<>>
            /\ fields' = <<>>
            /\ UNCHANGED <<stderr, status>>
       ELSE /\ Raise("UnboundLocalError")
            /\ UNCHANGED <<pos, result, fields>>
    /\ UNCHANGED <<argv, optimize, argi, namespace, extras, pargs, lang,
                   stdout, prev>>

\* A field name made of digits (or empty) indexes the positional arguments
\* of the format call, of which there are none.
IsDigits(name) == \A i \in 1 .. Len(name) : name[i] \in
                      {"0", "1", "2", "3", "4", "5", "6", "7", "8", "9"}

\* Line 186, template.format(lang=lang): one iteration of the markup
\* iterator.  The literal text is copied; a replacement field is looked up
\* in the arguments (only `lang` is there) and rendered with
\* LangName.__format__, whose result must be a string.
format_step ==
    /\ pc = "format"
    /\ pos <= Len(template)
    /\ \E m \in {Markup(template, pos)} :
          IF m.kind = "ValueError"
          THEN /\ Raise("ValueError")
               /\ UNCHANGED <<pos, result, fields>>
          ELSE IF m.kind = "literal"
          THEN /\ result' = result \o m.literal
               /\ pos' = m.next
               /\ UNCHANGED <<pc, fields, stderr, status>>
          ELSE IF m.name # Chars("lang")
          THEN /\ Raise(IF IsDigits(m.name) THEN "IndexError" ELSE "KeyError")
               /\ UNCHANGED <<pos, result, fields>>
          ELSE \E r \in {LangName_format(lang, m.spec)} :
                   IF r.ok
                   THEN /\ result' = result \o m.literal \o r.val
                        /\ fields' = Append(fields, [spec |-> m.spec, val |-> r.val])
                        /\ pos' = m.next
                        /\ UNCHANGED <<pc, stderr, status>>
                   ELSE /\ Raise(IF optimize THEN "TypeError" ELSE "AssertionError")
                        /\ UNCHANGED <<pos, result, fields>>
    /\ UNCHANGED <<argv, optimize, argi, namespace, extras, pargs, lang,
                   stdout, prev>>

\* Line 186: the format string is used up, format returns the text.
format_return ==
    /\ pc = "format"
    /\ pos > Len(template)
    /\ pc' = "write"
    /\ UNCHANGED <<argv, optimize, argi, namespace, extras, pargs, lang, pos,
                   result, fields, stdout, stderr, status, prev>>

\* Line 186: sys.stdout.write(...)
main_write ==
    /\ pc = "write"
    /\ stdout' = Append(stdout, result)
    /\ pc' = "return"
    /\ UNCHANGED <<argv, optimize, argi, namespace, extras, pargs, lang, pos,
                   result, fields, stderr, status, prev>>

\* Lines 188-189: main returns and the interpreter exits with status 0.
main_return ==
    /\ pc = "return"
    /\ pc' = "exited"
    /\ status' = 0
    /\ UNCHANGED <<argv, optimize, argi, namespace, extras, pargs, lang, pos,
                   result, fields, stdout, stderr, prev>>

\* The program is run again, with any command line and interpreter mode:
\* nothing of the exited process is kept but what an observer saw of it,
\* the selector its parser returned, its standard output and its exit
\* status.  (A run that ended inside the parser has no selector and leaves
\* nothing to compare; running again after it adds no state.)
invoke_again ==
    /\ pc = "exited"
    /\ pargs.set
    /\ prev' = [set |-> TRUE, lang |-> pargs.lang, stdout |-> stdout,
                status |-> status]
    /\ \E a \in Argvs, o \in BOOLEAN : Start(a, o)

\* The steps of one process.
Step ==
    \/ parse_lang
    \/ parse_help
    \/ parse_positional
    \/ parse_return
    \/ main_select
    \/ main_format_call
    \/ format_step
    \/ format_return
    \/ main_write
    \/ main_return

Next == Step \/ invoke_again

Spec == Init /\ [][Next]_vars

\* One run of the process, which is not suspended for ever: whenever it
\* has a next step it takes it.
FairSpec == Init /\ [][Step]_vars /\ WF_vars(Step)

----------------------------------------------------------------------------
(* Properties                                                               *)

\* s contains sub as a contiguous substring.
Contains(s, sub) ==
    \E i \in 1 .. (Len(s) - Len(sub) + 1) : SubSeq(s, i, i + Len(sub) - 1) = sub

\* The number of (possibly overlapping) occurrences of sub in s.
Count(s, sub) ==
    Cardinality({i \in 1 .. (Len(s) - Len(sub) + 1) :
                    SubSeq(s, i, i + Len(sub) - 1) = sub})

\* The selectors the specification allows.
ValidSelectors == {"c", "c++"}

\* The descriptors of the specification's mapping table.
DescriptorC   == [bound |-> TRUE, human |-> <<"C">>, cmake |-> <<"C">>]
DescriptorCXX == [bound |-> TRUE, human |-> <<"C", "+", "+">>,
                  cmake |-> <<"C", "X", "X">>]

\* The statements of main after the selection of the descriptor.
AfterSelect == {"format_call", "format", "write", "return"}

\* The process has exited after main ran for a valid selector.
Rendered == pc = "exited" /\ pargs.set /\ pargs.lang \in ValidSelectors

\* C1: a descriptor is constructed only as the table says, (C, C) for
\* selector "c" and (C++, CXX) for selector "c++": main holds no other
\* descriptor, none for any other selector, and holds the table's descriptor
\* whenever it went past the selection with a valid selector.
C1_DescriptorMapping ==
    /\ lang.bound =>
          /\ pargs.set
          /\ \/ pargs.lang = "c" /\ lang = DescriptorC
             \/ pargs.lang = "c++" /\ lang = DescriptorCXX
    /\ (pc \in AfterSelect /\ pargs.lang \in ValidSelectors) => lang.bound

C1_Witness ==
    pc = "format_call" /\ pargs.lang = "c++" /\ lang = DescriptorCXX

\* The three views of the specification, per selector and format spec.
ExpectedView(selector, spec) ==
    IF selector = "c"
    THEN (IF spec = <<"l">> THEN <<"c">> ELSE <<"C">>)
    ELSE (IF spec = <<"h">> THEN <<"C", "+", "+">>
          ELSE IF spec = <<"l">> THEN <<"c", "x", "x">>
          ELSE <<"C", "X", "X">>)

\* C2: every replacement field rendered has format spec h, l or u and is
\* replaced by the view of the specification ("C++", "cxx", "CXX" for
\* selector "c++"; "C", "c", "C" for selector "c"), and when the format
\* string is used up every placeholder of the template was replaced so.
C2_FormatViews ==
    /\ \A i \in 1 .. Len(fields) :
          /\ fields[i].spec \in {<<"h">>, <<"l">>, <<"u">>}
          /\ pargs.lang \in ValidSelectors
          /\ fields[i].val = ExpectedView(pargs.lang, fields[i].spec)
    /\ pc = "write" => Len(fields) = Count(template, Chars("{lang:"))

C2_Witness ==
    /\ pc = "write"
    /\ pargs.lang = "c++"
    /\ \A sp \in {<<"h">>, <<"l">>, <<"u">>} :
          \E i \in 1 .. Len(fields) : fields[i].spec = sp

\* C3: for selector "c" the text on standard output contains
\* CheckCSourceCompiles, RuAddCFlag, ru_check_c_attribute and
\* HAVE_C_ATTRIBUTE_, and for selector "c++" it contains
\* CheckCXXSourceCompiles, RuAddCXXFlag, ru_check_cxx_attribute and
\* HAVE_CXX_ATTRIBUTE_.
C3_Identifiers ==
    Rendered =>
        /\ Len(stdout) = 1
        /\ \A needle \in
              (IF pargs.lang = "c"
               THEN {"CheckCSourceCompiles", "RuAddCFlag",
                     "ru_check_c_attribute", "HAVE_C_ATTRIBUTE_"}
               ELSE {"CheckCXXSourceCompiles", "RuAddCXXFlag",
                     "ru_check_cxx_attribute", "HAVE_CXX_ATTRIBUTE_"}) :
              Contains(stdout[1], Chars(needle))

C3_Witness == Rendered /\ pargs.lang = "c" /\ status = 0 /\ Len(stdout) = 1

\* The command line gives --lang, at index i, a value that is not a valid
\* selector.
InvalidLangAt(i) ==
    /\ i \in 1 .. (Len(argv) - 1)
    /\ argv[i] = "--lang"
    /\ argv[i + 1] \notin {"--lang", "-h"}
    /\ argv[i + 1] \notin ValidSelectors

HasInvalidLang == \E i \in 1 .. Len(argv) : InvalidLangAt(i)

\* The command line gives --lang, at index i, no valid selector: an invalid
\* value, an option in place of the value, or nothing.
RejectedLangAt(i) ==
    /\ i \in 1 .. Len(argv)
    /\ argv[i] = "--lang"
    /\ (i = Len(argv) \/ argv[i + 1] \notin ValidSelectors)

\* The parser gets to a -h before it gets to a --lang it rejects.
HelpBeforeInvalidLang ==
    \E h \in 1 .. Len(argv) :
        /\ argv[h] = "-h"
        /\ \A i \in 1 .. h : ~RejectedLangAt(i)

\* Standard output holds no module text: nothing, or the help of -h.
NoModuleText == stdout \in {<<>>, <<help_text>>}

\* C4 as stated: a command line whose --lang value is outside {"c", "c++"}
\* ends with a non-zero exit status and no module text on standard output.
C4_AsStated ==
    HasInvalidLang =>
        /\ pc \notin {"write", "return"}
        /\ NoModuleText
        /\ pc = "exited" => status # 0

\* C4, amended: a command line whose --lang value is outside {"c", "c++"}
\* never reaches main and writes no module text; it ends with the parser's
\* usage error and exit status 2, unless a -h in front of the invalid --lang
\* ends it first with the help text and exit status 0.
C4_InvalidLangRejected ==
    HasInvalidLang =>
        /\ ~pargs.set
        /\ pc \in {"parse_args", "exited"}
        /\ NoModuleText
        /\ pc = "exited" =>
              IF HelpBeforeInvalidLang
              THEN status = 0 /\ stdout = <<help_text>> /\ stderr = <<>>
              ELSE status = 2 /\ stdout = <<>> /\ stderr = <<"usage error">>

C4_Witness ==
    /\ HasInvalidLang
    /\ ~HelpBeforeInvalidLang
    /\ pc = "exited"
    /\ status = 2
    /\ argi > 1

\* The command line holds neither --lang nor a request for help.
OmitsLang == \A i \in 1 .. Len(argv) : argv[i] \notin {"--lang", "-h"}

\* C5: a command line without --lang fails inside the argument parser, with
\* a usage error and a non-zero exit status, before main selects a
\* descriptor and without any module text.
C5_LangRequired ==
    OmitsLang =>
        /\ ~pargs.set
        /\ pc \in {"parse_args", "exited"}
        /\ NoModuleText
        /\ pc = "exited" => status # 0 /\ stderr = <<"usage error">>

\* The indexes at which sub starts in s.
Occurrences(s, sub) ==
    {i \in 1 .. (Len(s) - Len(sub) + 1) : SubSeq(s, i, i + Len(sub) - 1) = sub}

\* The lowercase token of the specification, per selector.
LowerToken(selector) == IF selector = "c" THEN "c" ELSE "cxx"

\* C6: for a valid selector the text on standard output holds exactly two
\* function definitions, ru_get_<l>_attribute_test_name and
\* ru_check_<l>_attribute in this order, each opened by a function(...) line
\* and closed by an endfunction() line before the next one opens, and no
\* placeholder marker is left in it.
C6_TwoFunctionsNoPlaceholder ==
    Rendered =>
        /\ Len(stdout) = 1
        /\ LET out    == stdout[1]
               opens  == Occurrences(out, Chars("\nfunction("))
               closes == Occurrences(out, Chars("\nendfunction()\n"))
               get    == Occurrences(out,
                             Chars("\nfunction(ru_get_") \o
                             Chars(LowerToken(pargs.lang)) \o
                             Chars("_attribute_test_name "))
               check  == Occurrences(out,
                             Chars("\nfunction(ru_check_") \o
                             Chars(LowerToken(pargs.lang)) \o
                             Chars("_attribute "))
           IN  /\ Cardinality(opens) = 2
               /\ Cardinality(closes) = 2
               /\ Count(out, Chars("function(")) = 4
               /\ Cardinality(get) = 1
               /\ Cardinality(check) = 1
               /\ opens = get \cup check
               /\ \E c1, c2 \in closes :
                     \A g \in get, k \in check : g < c1 /\ c1 < k /\ k < c2
               /\ \A marker \in {"{h}", "{l}", "{u}", "{lang", "lang:"} :
                     ~Contains(out, Chars(marker))

C6_Witness ==
    /\ Rendered
    /\ pargs.lang = "c++"
    /\ Len(stdout) = 1
    /\ Contains(stdout[1], Chars("\nfunction(ru_check_cxx_attribute attrib)\n"))

\* C7: the observable result is a function of the selector alone: two
\* invocations whose parser returned the same selector end with the same
\* text on standard output and the same exit status, whatever the rest of
\* the command line and the interpreter mode were.
C7_Deterministic ==
    (pc = "exited" /\ pargs.set /\ prev.set /\ prev.lang = pargs.lang) =>
        /\ stdout = prev.stdout
        /\ status = prev.status

C7_Witness ==
    /\ pc = "exited"
    /\ pargs.set
    /\ prev.set
    /\ prev.lang = "c++"
    /\ pargs.lang = "c++"
    /\ Len(stdout) = 1
    /\ stdout = prev.stdout

\* The run ended well: the rendered text written once, exit status 0.
Succeeded ==
    /\ pc = "exited"
    /\ status = 0
    /\ Len(stdout) = 1
    /\ stdout[1] = result
    /\ stderr = <<>>

\* C8: once a descriptor is constructed nothing fails (no exception, so the
\* fallback assertion of __format__ is never reached: every format spec is
\* h, l or u), the text is written at most once and only when the format
\* string is used up, and the run goes on to end with the text written
\* exactly once and exit status 0.
C8_RenderingSucceeds ==
    /\ [](lang.bound =>
            /\ stderr = <<>>
            /\ Len(stdout) = (IF pc \in {"return", "exited"} THEN 1 ELSE 0)
            /\ pc = "exited" => Succeeded)
    /\ (lang.bound ~> Succeeded)

C8_Witness == lang.bound /\ Succeeded /\ Len(fields) > 0

\* C9: whenever parse_args returns, the selector it returns is "c" or
\* "c++"; so the else branch of main is never taken and a run fails only
\* with the parser's usage error.
C9_ValidatedSelector ==
    /\ pargs.set => pargs.lang \in ValidSelectors
    /\ (pc = "exited" /\ status # 0) => stderr = <<"usage error">>

\* C10: every doubled brace of the template comes out as exactly one
\* literal brace: the CMake variable references and the C function body
\* appear with single braces, no doubled brace is left, the output holds
\* as many "{" (and "}") as the template holds "{{" (and "}}"), and the
\* fields rendered are the placeholders alone.
C10_BraceEscaping ==
    Rendered =>
        /\ Len(stdout) = 1
        /\ LET out == stdout[1]
           IN  /\ \A text \in {"${attrib}", "${result}", "${name}",
                               "${attrib_name}", "${ARG_UNPARSED_ARGUMENTS}",
                               "${test_name}", "${msg}", "${ARG_CODE}",
                               "int main(void) { return 0; }"} :
                     Contains(out, Chars(text))
               /\ ~Contains(out, Chars("{{"))
               /\ ~Contains(out, Chars("}}"))
               /\ Count(out, Chars("{")) = Count(template, Chars("{{"))
               /\ Count(out, Chars("}")) = Count(template, Chars("}}"))
               /\ Len(fields) = Count(template, Chars("{lang:"))

C10_Witness ==
    /\ Rendered
    /\ Len(stdout) = 1
    /\ Contains(stdout[1], Chars("check_c_source_compiles(\"${ARG_CODE}\" ${test_name})"))

====
